---- MODULE Spec2Model ----
(***************************************************************************)
(* Bulls and Cows: the core functions of src/src/game_logic.py and the two *)
(* front ends that drive them, src/src/cli_game.py (terminal loop) and     *)
(* src/src/web_app.py (Streamlit session).                                 *)
(*                                                                         *)
(* A Python str is a sequence of Unicode code points (integers): '0'..'9'  *)
(* are 48..57, ' ' is 32, 'a' is 97, U+00B2 SUPERSCRIPT TWO is 178 and     *)
(* U+0663 ARABIC-INDIC DIGIT THREE is 1635.                                *)
(***************************************************************************)
EXTENDS Integers, Sequences, FiniteSets, TLC

VARIABLES
    frontend,     \* which program runs: "cli", "web", or a function harness
    pc,           \* position of the running program
    loop_exit,    \* CLI: the break that ended play_game's loop ("none" while in it)
    secret,       \* self.secret / st.session_state.secret / argument `secret`
    guess,        \* the string last read: local `guess` / widget key "guess"
    ret,          \* return value of the function a harness has called
    attempts,     \* self.attempts / st.session_state.attempts
    history,      \* self.history / st.session_state.history
    game_won,     \* st.session_state.game_won
    last_guess,   \* st.session_state.last_guess
    total_games,  \* st.session_state.total_games
    victories,    \* st.session_state.victories
    best_score    \* st.session_state.best_score

vars == <<frontend, pc, loop_exit, secret, guess, ret, attempts, history, game_won,
          last_guess, total_games, victories, best_score>>

(***************************************************************************)
(* Bounds of the model.                                                    *)
(***************************************************************************)
MaxLen == 5        \* longest string handed to is_valid_guess by the harness
MaxDigit == 5      \* the evaluate_guess harness draws digits from 0..MaxDigit-1
MaxAttempts == 3   \* accepted guesses per game
MaxGames == 2      \* finished games counted by the web session's statistics

(***************************************************************************)
(* Strings.                                                                *)
(***************************************************************************)
\* str(d) for an int d in range(10): the one character '0' + d.
str(d) == 48 + d

\* ''.join(map(str, digits))
join(digits) == [i \in 1..Len(digits) |-> str(digits[i])]

\* set(s): the distinct characters of s.
set(s) == {s[i] : i \in 1..Len(s)}

\* The characters of the model's alphabet for which a one-character str.isdigit()
\* is True: ASCII digits, SUPERSCRIPT TWO and ARABIC-INDIC DIGIT THREE.
IsDigitChar(c) == c \in 48..57 \/ c \in {178, 1635}

\* s.isdigit(): all characters are digits and there is at least one character.
isdigit(s) == Len(s) > 0 /\ \A i \in 1..Len(s) : IsDigitChar(s[i])

\* `digit in secret` for a one-character string digit.
In(digit, s) == \E i \in 1..Len(s) : s[i] = digit

(***************************************************************************)
(* game_logic.py                                                           *)
(***************************************************************************)
\* Draws with replacement, as random.choices would.
random_sample_with_replacement(population, k) == [1..k -> population]

\* random.sample(population, k): any k distinct elements, in any order.
random_sample(population, k) ==
    {d \in [1..k -> population] : \A i, j \in 1..k : i # j => d[i] # d[j]}

\* The values generate_secret_number() can return.
generate_secret_number == {join(d) : d \in random_sample(0..9, 4)}

is_valid_guess_len_first(g) ==
    IF Len(g) # 4 THEN <<FALSE, "Input must be exactly 4 digits long">>
    ELSE IF ~isdigit(g) THEN <<FALSE, "Input must contain only digits">>
    ELSE IF Cardinality(set(g)) # 4 THEN <<FALSE, "All digits must be unique">>
    ELSE <<TRUE, "">>

is_valid_guess(g) ==
    IF ~isdigit(g) THEN <<FALSE, "Input must contain only digits">>
    ELSE IF Len(g) # 4 THEN <<FALSE, "Input must be exactly 4 digits long">>
    ELSE IF Cardinality(set(g)) # 4 THEN <<FALSE, "All digits must be unique">>
    ELSE <<TRUE, "">>

\* The loop of evaluate_guess from position idx on, with the counts so far.
RECURSIVE evaluate_loop(_, _, _, _)
evaluate_loop(g, s, idx, result) ==
    IF idx > Len(g) THEN result
    ELSE IF In(g[idx], s)
         THEN IF s[idx] = g[idx]
              THEN evaluate_loop(g, s, idx + 1, [result EXCEPT !.bulls = @ + 1])
              ELSE evaluate_loop(g, s, idx + 1, [result EXCEPT !.cows = @ + 1])
         ELSE evaluate_loop(g, s, idx + 1, result)

RECURSIVE evaluate_loop_no_membership(_, _, _, _)
evaluate_loop_no_membership(g, s, idx, result) ==
    IF idx > Len(g) THEN result
    ELSE IF s[idx] = g[idx]
         THEN evaluate_loop_no_membership(g, s, idx + 1, [result EXCEPT !.bulls = @ + 1])
         ELSE evaluate_loop_no_membership(g, s, idx + 1, [result EXCEPT !.cows = @ + 1])

evaluate_guess_no_membership(g, s) ==
    evaluate_loop_no_membership(g, s, 1, [bulls |-> 0, cows |-> 0])

RECURSIVE evaluate_loop_swapped(_, _, _, _)
evaluate_loop_swapped(g, s, idx, result) ==
    IF idx > Len(g) THEN result
    ELSE IF In(g[idx], s)
         THEN IF s[idx] # g[idx]
              THEN evaluate_loop_swapped(g, s, idx + 1, [result EXCEPT !.bulls = @ + 1])
              ELSE evaluate_loop_swapped(g, s, idx + 1, [result EXCEPT !.cows = @ + 1])
         ELSE evaluate_loop_swapped(g, s, idx + 1, result)

evaluate_guess_swapped(g, s) ==
    evaluate_loop_swapped(g, s, 1, [bulls |-> 0, cows |-> 0])

\* Counts every guess digit found in the secret as a cow, a bull included.
evaluate_guess_double_count(g, s) ==
    LET r == evaluate_loop(g, s, 1, [bulls |-> 0, cows |-> 0])
    IN  [r EXCEPT !.cows = r.cows + r.bulls]

evaluate_guess(g, s) == evaluate_loop(g, s, 1, [bulls |-> 0, cows |-> 0])

(***************************************************************************)
(* Values of the variables a program does not use.                         *)
(***************************************************************************)
NoStr == <<>>
NoRet == <<>>

NoGameState ==
    /\ loop_exit = "none"
    /\ attempts = 0
    /\ history = <<>>
    /\ game_won = FALSE
    /\ last_guess = NoStr
    /\ total_games = 0
    /\ victories = 0
    /\ best_score = 0

game_vars == <<loop_exit, attempts, history, game_won, last_guess, total_games, victories,
               best_score>>

(***************************************************************************)
(* Harness of is_valid_guess: one call on an arbitrary string.             *)
(***************************************************************************)
\* '0'..'4', ' ', 'a', SUPERSCRIPT TWO, ARABIC-INDIC DIGIT THREE
ValidatorChars == (48..52) \cup {32, 97, 178, 1635}

ValidatorInputs == UNION {[1..n -> ValidatorChars] : n \in 0..MaxLen}

InitValid ==
    /\ frontend = "is_valid_guess"
    /\ pc = "call"
    /\ guess \in ValidatorInputs
    /\ secret = NoStr
    /\ ret = NoRet
    /\ NoGameState

CallIsValidGuess ==
    /\ frontend = "is_valid_guess"
    /\ pc = "call"
    /\ ret' = is_valid_guess(guess)
    /\ pc' = "done"
    /\ UNCHANGED <<frontend, secret, guess, game_vars>>

SpecValid == InitValid /\ [][CallIsValidGuess]_vars

(***************************************************************************)
(* Vocabulary of the claims about is_valid_guess.                          *)
(***************************************************************************)
\* c is one of the decimal digits 0-9.
IsDecimalDigit09(c) == c >= 48 /\ c <= 57

PairwiseDistinct(s) == \A i, j \in 1..Len(s) : i # j => s[i] # s[j]

\* Length exactly 4, every character one of 0-9, the 4 characters distinct.
WellFormed(s) ==
    /\ Len(s) = 4
    /\ \A i \in 1..Len(s) : IsDecimalDigit09(s[i])
    /\ PairwiseDistinct(s)

\* C1: for every input string s, is_valid_guess(s) returns valid = true if and
\* only if s has length exactly 4, every character is one of the decimal digits
\* 0-9, and the 4 characters are pairwise distinct.
C1_ValidIffWellFormed ==
    (frontend = "is_valid_guess" /\ pc = "done") => (ret[1] <=> WellFormed(guess))

InitGen ==
    /\ frontend = "generate_secret_number"
    /\ pc = "call"
    /\ guess = NoStr
    /\ secret = NoStr
    /\ ret = NoRet
    /\ NoGameState

\* The caller's `secret = generate_secret_number()`.
CallGenerateSecretNumber ==
    /\ frontend = "generate_secret_number"
    /\ pc = "call"
    /\ secret' \in generate_secret_number
    /\ pc' = "done"
    /\ UNCHANGED <<frontend, guess, ret, game_vars>>

\* The caller hands the generated secret to is_valid_guess.
CallIsValidGuessOnSecret ==
    /\ frontend = "generate_secret_number"
    /\ pc = "done"
    /\ ret' = is_valid_guess(secret)
    /\ pc' = "validated"
    /\ UNCHANGED <<frontend, guess, secret, game_vars>>

NextGen == CallGenerateSecretNumber \/ CallIsValidGuessOnSecret

SpecGen == InitGen /\ [][NextGen]_vars

\* C6: every value generate_secret_number can return has length exactly 4, all
\* characters decimal digits 0-9, pairwise distinct, and is accepted by
\* is_valid_guess; there is no error outcome (a value is always returned).
C6_GeneratedSecretIsValid ==
    /\ (frontend = "generate_secret_number" /\ pc # "call") => WellFormed(secret)
    /\ (frontend = "generate_secret_number" /\ pc = "validated") => ret = <<TRUE, "">>
    /\ (frontend = "generate_secret_number" /\ pc = "call")
        => generate_secret_number # {}

\* C6 witness: a secret with a leading zero was generated and validated.
C6_Witness ==
    /\ frontend = "generate_secret_number" /\ pc = "validated"
    /\ secret = <<48, 57, 56, 55>>
    /\ ret[1]

(***************************************************************************)
(* Harness of evaluate_guess: one call on a pair of well-formed strings.   *)
(***************************************************************************)
\* "1234", "1243", "5678", "7814", "7846": the documented examples.
ExampleStrings ==
    {join(<<1, 2, 3, 4>>), join(<<1, 2, 4, 3>>), join(<<5, 6, 7, 8>>),
     join(<<7, 8, 1, 4>>), join(<<7, 8, 4, 6>>)}

EvalInputs ==
    {join(d) : d \in random_sample(0..(MaxDigit - 1), 4)} \cup ExampleStrings

InitEval ==
    /\ frontend = "evaluate_guess"
    /\ pc = "call"
    /\ guess \in EvalInputs
    /\ secret \in EvalInputs
    /\ ret = NoRet
    /\ NoGameState

CallEvaluateGuess ==
    /\ frontend = "evaluate_guess"
    /\ pc = "call"
    /\ ret' = evaluate_guess(guess, secret)
    /\ pc' = "done"
    /\ UNCHANGED <<frontend, secret, guess, game_vars>>

SpecEval == InitEval /\ [][CallEvaluateGuess]_vars

EvalDone == frontend = "evaluate_guess" /\ pc = "done"

\* Positions i with g[i] = s[i].
BullPositions(g, s) == {i \in 1..Len(g) : g[i] = s[i]}

\* Positions i where g[i] occurs in s at some position other than i.
CowPositions(g, s) ==
    {i \in 1..Len(g) : \E j \in 1..Len(s) : j # i /\ s[j] = g[i]}

\* C3: for well-formed guess and secret, bulls is the number of positions i with
\* guess[i] = secret[i] and cows the number of positions i where guess[i] occurs
\* in secret at another position; a digit absent from the secret adds to neither;
\* evaluate_guess("1234","1243") = {2,2}, evaluate_guess("7814","7846") = {2,1},
\* and a guess sharing no digit with the secret gives {0,0}.
C3_BullsAndCowsCounts ==
    (EvalDone /\ WellFormed(guess) /\ WellFormed(secret)) =>
        /\ ret.bulls = Cardinality(BullPositions(guess, secret))
        /\ ret.cows = Cardinality(CowPositions(guess, secret))
        /\ ret.bulls + ret.cows
             = Cardinality({i \in 1..Len(guess) : guess[i] \in set(secret)})
        /\ (guess = join(<<1, 2, 3, 4>>) /\ secret = join(<<1, 2, 4, 3>>))
             => ret = [bulls |-> 2, cows |-> 2]
        /\ (guess = join(<<7, 8, 1, 4>>) /\ secret = join(<<7, 8, 4, 6>>))
             => ret = [bulls |-> 2, cows |-> 1]
        /\ (set(guess) \cap set(secret) = {}) => ret = [bulls |-> 0, cows |-> 0]

\* C3 witness: evaluate_guess("7814", "7846") has returned 2 bulls and 1 cow.
C3_Witness ==
    /\ EvalDone
    /\ guess = <<55, 56, 49, 52>> /\ secret = <<55, 56, 52, 54>>
    /\ ret = [bulls |-> 2, cows |-> 1]

\* C4: for well-formed guess and secret, bulls >= 0, cows >= 0, bulls + cows <= 4,
\* and bulls + cows = 4 only when every digit of the guess appears in the secret.
C4_ScoreBound ==
    (EvalDone /\ WellFormed(guess) /\ WellFormed(secret)) =>
        /\ ret.bulls >= 0
        /\ ret.cows >= 0
        /\ ret.bulls + ret.cows <= 4
        /\ (ret.bulls + ret.cows = 4) => (set(guess) \subseteq set(secret))

\* C4 witness: a score with bulls + cows = 4 that is not a win, and the guess is
\* a rearrangement of the secret.
C4_Witness ==
    /\ EvalDone
    /\ ret.bulls + ret.cows = 4 /\ ret.bulls < 4
    /\ set(guess) = set(secret)

\* C5: for every well-formed secret s, evaluate_guess(s, s) is exactly
\* bulls = 4, cows = 0.
C5_SelfMatch ==
    (EvalDone /\ WellFormed(secret) /\ guess = secret)
        => ret = [bulls |-> 4, cows |-> 0]

\* C5 witness: evaluate_guess("7846", "7846") has returned 4 bulls, 0 cows.
C5_Witness ==
    /\ EvalDone
    /\ guess = <<55, 56, 52, 54>> /\ secret = guess
    /\ ret = [bulls |-> 4, cows |-> 0]

(***************************************************************************)
(* Inputs of the two front ends.                                           *)
(***************************************************************************)
\* s.strip(): leading and trailing whitespace removed (' ' is the alphabet's
\* only whitespace character).
RECURSIVE strip(_)
strip(s) ==
    IF Len(s) = 0 THEN s
    ELSE IF s[1] = 32 THEN strip(Tail(s))
    ELSE IF s[Len(s)] = 32 THEN strip(SubSeq(s, 1, Len(s) - 1))
    ELSE s

\* s.lower(): 'A'..'Z' become 'a'..'z'; no other character of the alphabet
\* changes.
lower(s) == [i \in 1..Len(s) |-> IF s[i] >= 65 /\ s[i] <= 90 THEN s[i] + 32 ELSE s[i]]

\* 'quit'
Quit == <<113, 117, 105, 116>>

\* Lines typed at "Enter your guess": "1234", "1243", "7846", " 1243 ", "12²4"
\* (SUPERSCRIPT TWO), "12a4", "123", "1123", "12345", "", "quit", " QUIT".
CliInputs ==
    {<<49, 50, 51, 52>>, <<49, 50, 52, 51>>, <<55, 56, 52, 54>>,
     <<32, 49, 50, 52, 51, 32>>, <<49, 50, 178, 52>>, <<49, 50, 97, 52>>,
     <<49, 50, 51>>, <<49, 49, 50, 51>>, <<49, 50, 51, 52, 53>>, <<>>,
     Quit, <<32, 81, 85, 73, 84>>}

\* Lines typed at "Do you want to play again?": "y", " Yes", "n", "NO", "x".
CliResponses ==
    {<<121>>, <<32, 89, 101, 115>>, <<110>>, <<78, 79>>, <<120>>}

\* Text submitted in the web form (max_chars=4): "1234", "1243", "7846", "12²4",
\* "12a4", "123", "1123", "".
WebInputs ==
    {<<49, 50, 51, 52>>, <<49, 50, 52, 51>>, <<55, 56, 52, 54>>,
     <<49, 50, 178, 52>>, <<49, 50, 97, 52>>, <<49, 50, 51>>,
     <<49, 49, 50, 51>>, <<>>}

\* The secrets generate_secret_number returns in the front-end model: "1243"
\* and "7846".
GameSecrets ==
    {s \in generate_secret_number :
        s \in {join(<<1, 2, 4, 3>>), join(<<7, 8, 4, 6>>)}}

\* float('inf') of best_score: above every attempts count of the model.
Inf == MaxAttempts + 1

(***************************************************************************)
(* cli_game.py                                                             *)
(***************************************************************************)
web_vars == <<game_won, last_guess, total_games, victories, best_score>>

\* BullsAndCowsCLI.__init__
BullsAndCowsCLI_init ==
    /\ secret' \in GameSecrets
    /\ attempts' = 0
    /\ history' = <<>>

\* get_valid_guess reads 'quit'; play_game prints the secret and breaks.
CliReadQuit(raw) ==
    /\ frontend = "cli" /\ pc = "get_valid_guess"
    /\ lower(strip(raw)) = Quit
    /\ guess' = lower(strip(raw))
    /\ pc' = "play_again"
    /\ loop_exit' = "quit"
    /\ UNCHANGED <<frontend, secret, ret, attempts, history, web_vars>>

\* get_valid_guess reads an invalid line, prints the error and asks again.
CliReadInvalid(raw) ==
    /\ frontend = "cli" /\ pc = "get_valid_guess"
    /\ lower(strip(raw)) # Quit
    /\ ~is_valid_guess(lower(strip(raw)))[1]
    /\ guess' = lower(strip(raw))
    /\ UNCHANGED <<frontend, pc, loop_exit, secret, ret, attempts, history, web_vars>>

CliReadGuess_insert_front(raw) ==
    /\ frontend = "cli" /\ pc = "get_valid_guess"
    /\ lower(strip(raw)) # Quit
    /\ is_valid_guess(lower(strip(raw)))[1]
    /\ attempts < MaxAttempts
    /\ guess' = lower(strip(raw))
    /\ attempts' = attempts + 1
    /\ IF guess' = secret
       THEN /\ pc' = "play_again"
            /\ loop_exit' = "won"
            /\ UNCHANGED history
       ELSE /\ history' = <<(<<guess', evaluate_guess(guess', secret)>>)>> \o history
            /\ UNCHANGED <<pc, loop_exit>>
    /\ UNCHANGED <<frontend, secret, ret, web_vars>>

\* get_valid_guess returns a valid guess; play_game counts it, then either
\* breaks on a win or evaluates and records it.
CliReadGuess(raw) ==
    /\ frontend = "cli" /\ pc = "get_valid_guess"
    /\ lower(strip(raw)) # Quit
    /\ is_valid_guess(lower(strip(raw)))[1]
    /\ attempts < MaxAttempts
    /\ guess' = lower(strip(raw))
    /\ attempts' = attempts + 1
    /\ IF guess' = secret
       THEN /\ pc' = "play_again"
            /\ loop_exit' = "won"
            /\ UNCHANGED history
       ELSE /\ history' = Append(history, <<guess', evaluate_guess(guess', secret)>>)
            /\ UNCHANGED <<pc, loop_exit>>
    /\ UNCHANGED <<frontend, secret, ret, web_vars>>

\* play_again returns True: main builds a new BullsAndCowsCLI and plays it.
CliPlayAgainYes(raw) ==
    /\ frontend = "cli" /\ pc = "play_again"
    /\ lower(strip(raw)) \in {<<121>>, <<121, 101, 115>>}
    /\ BullsAndCowsCLI_init
    /\ pc' = "get_valid_guess"
    /\ loop_exit' = "none"
    /\ guess' = NoStr
    /\ UNCHANGED <<frontend, ret, web_vars>>

\* play_again returns False: main leaves its loop.
CliPlayAgainNo(raw) ==
    /\ frontend = "cli" /\ pc = "play_again"
    /\ lower(strip(raw)) \in {<<110>>, <<110, 111>>}
    /\ pc' = "exit"
    /\ UNCHANGED <<frontend, loop_exit, secret, guess, ret, attempts, history, web_vars>>

\* play_again reads anything else and asks again.
CliPlayAgainOther(raw) ==
    /\ frontend = "cli" /\ pc = "play_again"
    /\ lower(strip(raw)) \notin {<<121>>, <<121, 101, 115>>, <<110>>, <<110, 111>>}
    /\ UNCHANGED vars

(***************************************************************************)
(* web_app.py                                                              *)
(***************************************************************************)
initialize_session_state_unguarded ==
    /\ secret' \in GameSecrets
    /\ attempts' = 0
    /\ history' = <<>>
    /\ game_won' = FALSE
    /\ last_guess' = <<>>
    /\ total_games' = 0
    /\ victories' = 0
    /\ best_score' = Inf

\* initialize_session_state: fills the session only when it holds no "secret".
initialize_session_state ==
    IF pc = "no_session"
    THEN /\ secret' \in GameSecrets
         /\ attempts' = 0
         /\ history' = <<>>
         /\ game_won' = FALSE
         /\ last_guess' = <<>>
         /\ total_games' = 0
         /\ victories' = 0
         /\ best_score' = Inf
    ELSE UNCHANGED <<secret, attempts, history, game_won, last_guess,
                     total_games, victories, best_score>>

\* reset_game, entered with st.session_state.total_games = games.
reset_game(games) ==
    /\ IF game_won
       THEN /\ total_games' = games + 1
            /\ victories' = victories + 1
            /\ best_score' = IF attempts < best_score THEN attempts ELSE best_score
       ELSE /\ total_games' = games
            /\ UNCHANGED <<victories, best_score>>
    /\ secret' \in GameSecrets
    /\ attempts' = 0
    /\ history' = <<>>
    /\ game_won' = FALSE
    /\ last_guess' = <<>>
    /\ guess' = <<>>

\* The first run of main for a session: the state is initialised and the page
\* drawn with an empty text input.
WebFirstRun ==
    /\ frontend = "web" /\ pc = "no_session"
    /\ initialize_session_state
    /\ guess' = <<>>
    /\ pc' = "session"
    /\ UNCHANGED <<frontend, loop_exit, ret>>

\* A later run of main with nothing submitted and no button clicked.
WebRerun ==
    /\ frontend = "web" /\ pc = "session"
    /\ initialize_session_state
    /\ UNCHANGED <<frontend, pc, loop_exit, guess, ret>>

\* Line 136 of main for the submitted text.
SubmitProcessed(text) == text # <<>> /\ text # last_guess /\ ~game_won

\* "Submit Guess" with a text the condition of line 136 drops: empty, equal to
\* last_guess, or submitted after the game is won.
WebSubmitIgnored(text) ==
    /\ frontend = "web" /\ pc = "session"
    /\ ~SubmitProcessed(text)
    /\ guess' = text
    /\ UNCHANGED <<frontend, pc, loop_exit, secret, ret, attempts, history, web_vars>>

WebSubmitInvalid_counts(text) ==
    /\ frontend = "web" /\ pc = "session"
    /\ SubmitProcessed(text)
    /\ ~is_valid_guess(text)[1]
    /\ attempts < MaxAttempts
    /\ guess' = text
    /\ last_guess' = text
    /\ attempts' = attempts + 1
    /\ UNCHANGED <<frontend, pc, loop_exit, secret, ret, history, game_won,
                   total_games, victories, best_score>>

\* "Submit Guess" with a text is_valid_guess rejects: a warning is shown.
WebSubmitInvalid(text) ==
    /\ frontend = "web" /\ pc = "session"
    /\ SubmitProcessed(text)
    /\ ~is_valid_guess(text)[1]
    /\ guess' = text
    /\ last_guess' = text
    /\ UNCHANGED <<frontend, pc, loop_exit, secret, ret, attempts, history, game_won,
                   total_games, victories, best_score>>

WebSubmitGuess_no_won_guard(text) ==
    /\ frontend = "web" /\ pc = "session"
    /\ text # <<>> /\ text # last_guess
    /\ is_valid_guess(text)[1]
    /\ attempts < MaxAttempts
    /\ guess' = text
    /\ last_guess' = text
    /\ attempts' = attempts + 1
    /\ IF text = secret
       THEN /\ game_won' = TRUE
            /\ UNCHANGED history
       ELSE /\ history' = Append(history, <<text, evaluate_guess(text, secret)>>)
            /\ UNCHANGED game_won
    /\ UNCHANGED <<frontend, pc, loop_exit, secret, ret, total_games, victories,
                   best_score>>

\* "Submit Guess" with a valid guess: counted, then either the game is won (and
\* the page rerun) or the guess is evaluated and recorded.
WebSubmitGuess(text) ==
    /\ frontend = "web" /\ pc = "session"
    /\ SubmitProcessed(text)
    /\ is_valid_guess(text)[1]
    /\ attempts < MaxAttempts
    /\ guess' = text
    /\ last_guess' = text
    /\ attempts' = attempts + 1
    /\ IF text = secret
       THEN /\ game_won' = TRUE
            /\ UNCHANGED history
       ELSE /\ history' = Append(history, <<text, evaluate_guess(text, secret)>>)
            /\ UNCHANGED game_won
    /\ UNCHANGED <<frontend, pc, loop_exit, secret, ret, total_games, victories,
                   best_score>>

\* "Play Again", drawn when the game is won.
WebPlayAgain ==
    /\ frontend = "web" /\ pc = "session"
    /\ game_won
    /\ total_games < MaxGames
    /\ reset_game(total_games)
    /\ UNCHANGED <<frontend, pc, loop_exit, ret>>

\* "Give Up", drawn when the game is not won and a guess was counted.
WebGiveUp ==
    /\ frontend = "web" /\ pc = "session"
    /\ ~game_won /\ attempts > 0
    /\ total_games < MaxGames
    /\ reset_game(total_games + 1)
    /\ UNCHANGED <<frontend, pc, loop_exit, ret>>

(***************************************************************************)
(* The two programs.                                                       *)
(***************************************************************************)
\* cli_game.main has built its first BullsAndCowsCLI and entered play_game;
\* or a browser session has opened and main of web_app has not run yet.
Init ==
    /\ frontend \in {"cli", "web"}
    /\ guess = NoStr
    /\ ret = NoRet
    /\ loop_exit = "none"
    /\ attempts = 0
    /\ history = <<>>
    /\ game_won = FALSE
    /\ last_guess = NoStr
    /\ total_games = 0
    /\ victories = 0
    /\ best_score = 0
    /\ IF frontend = "cli"
       THEN pc = "get_valid_guess" /\ secret \in GameSecrets
       ELSE pc = "no_session" /\ secret = NoStr

Next ==
    \/ \E raw \in CliInputs : CliReadQuit(raw)
    \/ \E raw \in CliInputs : CliReadInvalid(raw)
    \/ \E raw \in CliInputs : CliReadGuess(raw)
    \/ \E raw \in CliResponses : CliPlayAgainYes(raw)
    \/ \E raw \in CliResponses : CliPlayAgainNo(raw)
    \/ \E raw \in CliResponses : CliPlayAgainOther(raw)
    \/ WebFirstRun
    \/ WebRerun
    \/ \E text \in WebInputs : WebSubmitIgnored(text)
    \/ \E text \in WebInputs : WebSubmitInvalid(text)
    \/ \E text \in WebInputs : WebSubmitGuess(text)
    \/ WebPlayAgain
    \/ WebGiveUp

Spec == Init /\ [][Next]_vars

(***************************************************************************)
(* Vocabulary of the claims about a game.                                  *)
(***************************************************************************)
InProgress ==
    \/ frontend = "cli" /\ pc = "get_valid_guess"
    \/ frontend = "web" /\ pc = "session" /\ ~game_won

Won ==
    \/ frontend = "cli" /\ loop_exit = "won"
    \/ frontend = "web" /\ pc = "session" /\ game_won

\* The CLI's quit; the web's Give Up resets in the same run, so an abandoned
\* web game is never a state of its own.
Abandoned == frontend = "cli" /\ loop_exit = "quit"

\* A step that starts a game instance: a new BullsAndCowsCLI after play_again,
\* the session's first run, or a reset (every reset counts one more game).
NewGameStep ==
    \/ frontend = "cli" /\ pc = "play_again" /\ pc' = "get_valid_guess"
    \/ frontend = "web" /\ pc = "no_session" /\ pc' = "session"
    \/ frontend = "web" /\ total_games' # total_games

\* The web's Give Up: a game that is not won is counted as played.
GiveUpStep ==
    frontend = "web" /\ pc = "session" /\ ~game_won /\ total_games' # total_games

C7_Step ==
    /\ NewGameStep => (InProgress' /\ attempts' = 0 /\ history' = <<>>)
    /\ (InProgress /\ ~NewGameStep) =>
          /\ Won' <=> (guess' = secret)
          /\ Abandoned' <=> (frontend = "cli" /\ guess' = Quit)
          /\ InProgress' <=> ~(Won' \/ Abandoned')
    /\ GiveUpStep =>
          (attempts > 0 /\ total_games' = total_games + 1 /\ victories' = victories)
    /\ ((Won \/ Abandoned) /\ ~NewGameStep) =>
          /\ attempts' = attempts
          /\ history' = history
          /\ secret' = secret
          /\ Won' <=> Won
          /\ Abandoned' <=> Abandoned

\* C7: in both front ends a game instance starts InProgress and stays InProgress
\* after any input that is neither a guess equal to the secret nor a
\* quit/give-up; it becomes Won exactly when a submitted guess equals the secret
\* and Abandoned exactly on quit (CLI) or Give Up (web); after Won or Abandoned no
\* input changes that instance's attempts, history or outcome.
C7_GameLifecycle == [][C7_Step]_vars

\* C7 witness: a web game is won after an earlier game of the session was given
\* up, and a submission made after the win was dropped.
C7_Witness ==
    /\ frontend = "web" /\ game_won
    /\ total_games = 1 /\ victories = 0
    /\ Len(history) >= 1
    /\ guess # last_guess /\ guess # <<>>

\* C8: the secret of a game is immutable for the duration of that game: it is
\* assigned only when a game starts (the CLI constructor, the web session's
\* first run, reset_game); no guess submission and no rerun changes it.
C8_SecretImmutable == [][secret' # secret => NewGameStep]_vars

\* C8 witness: a CLI game won on its third accepted guess, after an invalid
\* line, against the secret it was constructed with.
C8_Witness ==
    /\ frontend = "cli" /\ loop_exit = "won"
    /\ attempts = 3 /\ Len(history) = 2
    /\ guess = secret

\* A guess the front end validated and accepted in this step: the web drops a
\* submission equal to last_guess before it reaches is_valid_guess.
AcceptedStep ==
    /\ InProgress /\ ~NewGameStep
    /\ is_valid_guess(guess')[1]
    /\ frontend = "web" => guess' # last_guess

C9_Step ==
    /\ ~NewGameStep =>
          \/ history' = history
          \/ /\ AcceptedStep /\ guess' # secret
             /\ history' = Append(history, <<guess', evaluate_guess(guess', secret)>>)
    /\ (AcceptedStep /\ guess' # secret) => Len(history') = Len(history) + 1
    /\ (~NewGameStep /\ ~is_valid_guess(guess')[1]) => history' = history
    /\ (history # <<>> /\ history' = <<>>) => NewGameStep

\* C9: within one game the history is append-only and insertion-ordered: each
\* accepted non-winning guess appends exactly one entry
\* (guess, evaluate_guess(guess, secret)) at the end, existing entries are never
\* modified, reordered or removed, an invalid guess appends nothing, and the
\* history is emptied only when a new game starts.
C9_HistoryAppendOnly == [][C9_Step]_vars

\* C9 witness: a history of three different guesses in a game that also saw an
\* invalid submission.
C9_Witness ==
    /\ frontend = "web" /\ ~game_won
    /\ Len(history) = 3
    /\ history[1][1] # history[2][1] /\ history[2][1] # history[3][1]
    /\ ~is_valid_guess(last_guess)[1] /\ last_guess # <<>>

\* C10: after any sequence of inputs attempts = len(history) + (1 if the game is
\* Won else 0), and every recorded entry has a guess accepted by is_valid_guess
\* and a score with bulls <= 3.
C10_AttemptsCountAccepted ==
    (frontend \in {"cli", "web"}) =>
        /\ attempts = Len(history) + (IF Won THEN 1 ELSE 0)
        /\ \A i \in 1..Len(history) :
              /\ is_valid_guess(history[i][1])[1]
              /\ history[i][2].bulls <= 3

\* C10 witness: a won web game with three counted guesses, two of them recorded,
\* the first of which scored 2 bulls.
C10_Witness ==
    /\ frontend = "web" /\ game_won
    /\ attempts = 3 /\ Len(history) = 2
    /\ history[1][2].bulls = 2

====
